---- MODULE Spec2Model ----
(***************************************************************************)
(* The forecasting engine of src/src/forecasting.py as a state machine:    *)
(* one run of run_forecasting_pipeline, which loads the input file, calls  *)
(* generate_forecasts(df), stepped through its statements, and saves.      *)
(* forecast_series called on its own, clean_values of src/src/etl.py and   *)
(* assign_period of src/src/viz_utils.py have specifications of their own. *)
(*                                                                         *)
(* Values are floats in the source.  Here a value v is the integer         *)
(* v * Scale, so that halves, tenths and the means of two or three such    *)
(* values are exact.                                                       *)
(***************************************************************************)
EXTENDS Integers, Sequences, FiniteSets, TLC

VARIABLES
    year_arg,         \* viz_utils.py: the argument year of assign_period
    range_at,         \* viz_utils.py, line 315: the entry of PERIOD_RANGES at hand
    period,           \* viz_utils.py: what assign_period returned
    melted,           \* etl.py: the long-format frame passed to clean_values
    clean_metrics,    \* the file at input_path: whether it exists, its rows
    forecasts_parquet,\* the file at output_path: whether it exists, its rows
    df,               \* line 204: the table passed to generate_forecasts
    pc,               \* the statement generate_forecasts is at
    df_train,         \* line 115-118
    groups,           \* line 123: the group keys, in groupby's order
    i,                \* line 128: groups processed so far
    series,           \* line 134: the current group's series, indexed by Year
    fit,              \* line 72-74: what the Holt fit of the current series did
    forecast_values,  \* line 137
    all_forecasts,    \* line 120, 151
    result            \* line 155-167

vars == <<year_arg, range_at, period, melted, clean_metrics, forecasts_parquet, df, pc, df_train, groups, i, series,
          fit, forecast_values, all_forecasts, result>>

\* What generate_forecasts never touches: the variables of assign_period, the
\* frame of the ETL and the files.
files == <<year_arg, range_at, period, melted, clean_metrics, forecasts_parquet>>

-----------------------------------------------------------------------------
(* Constants of forecasting.py *)

TRAINING_START == 2015
TRAINING_END == 2025
FORECAST_START == 2026
FORECAST_END == 2035
FORECAST_HORIZON == FORECAST_END - FORECAST_START + 1
MIN_HISTORY_POINTS == 3
DISCRETE_METRICS == <<"Publication Quantity", "Citation Quantity">>

-----------------------------------------------------------------------------
(* Fixed-point values *)

Scale == 2 * 2 * 3 * 5
Whole(n) == n * Scale
Tenth(n) == n * (Scale \div 10)

-----------------------------------------------------------------------------
(* Bounds of the inputs *)

MaxRows == 3      \* rows of a free-form input table
MaxLen == 4       \* years of a one-group input table

-----------------------------------------------------------------------------
(* Sequence helpers *)

RECURSIVE SumSeq(_)
SumSeq(s) == IF s = <<>> THEN 0 ELSE Head(s) + SumSeq(Tail(s))

RECURSIVE Flatten(_)
Flatten(ss) == IF ss = <<>> THEN <<>> ELSE Head(ss) \o Flatten(Tail(ss))

\* Series.tail(n): the last n elements.
TailN(s, n) == SubSeq(s, Len(s) - n + 1, Len(s))

Min(a, b) == IF a < b THEN a ELSE b

Range(s) == {s[j] : j \in DOMAIN s}

SeqsUpTo(S, n) == UNION {[1..m -> S] : m \in 0..n}

-----------------------------------------------------------------------------
(* Tables *)

\* The group keys the inputs draw from, in the order groupby sorts them
\* (lexicographic on Region Code, Region, School, Metric).
KeyOrder ==
    << [RegionCode |-> "CAR", Region |-> "Cordillera Administrative Region",
        School |-> "Benguet State University",
        Metric |-> "Citation Quantity"],
       [RegionCode |-> "CAR", Region |-> "Cordillera Administrative Region",
        School |-> "Benguet State University",
        Metric |-> "Field-Weighted Citation Impact"],
       [RegionCode |-> "CAR", Region |-> "Cordillera Administrative Region",
        School |-> "Benguet State University",
        Metric |-> "Publication Quantity"] >>

Keys == {KeyOrder[k] : k \in DOMAIN KeyOrder}

\* The keys of the free-form tables: a continuous and a discrete metric.
FreeKeys == {KeyOrder[2], KeyOrder[3]}

KeyOf(row) == [RegionCode |-> row.RegionCode, Region |-> row.Region,
               School |-> row.School, Metric |-> row.Metric]

InputRow(key, year, value) ==
    [RegionCode |-> key.RegionCode, Region |-> key.Region, School |-> key.School,
     Year |-> year, Metric |-> key.Metric, Value |-> value]

TypedRow(row, type) ==
    [RegionCode |-> row.RegionCode, Region |-> row.Region, School |-> row.School,
     Year |-> row.Year, Metric |-> row.Metric, Value |-> row.Value, Type |-> type]

\* Free-form tables: any rows in any order, years inside and outside the
\* training window, the same (key, year) possibly twice.
YearsIn == {TRAINING_START - 1, TRAINING_END - 1, TRAINING_END}
ValuesIn == {Tenth(-15), Tenth(25)}
RowsIn == {InputRow(k, y, v) : k \in FreeKeys, y \in YearsIn, v \in ValuesIn}
FreeTables == SeqsUpTo(RowsIn, MaxRows)

\* One-group tables: a series of values for the years ending at TRAINING_END,
\* its rows in ascending or in descending year order.
SeriesValues == {Whole(0), Whole(5), Whole(7)}
SeriesTable(key, vals, descending) ==
    [j \in 1..Len(vals) |->
        LET m == IF descending THEN Len(vals) + 1 - j ELSE j
        IN  InputRow(key, TRAINING_END - Len(vals) + m, vals[m])]
SeriesTables ==
    {SeriesTable(k, s, d) : k \in Keys,
                            s \in SeqsUpTo(SeriesValues, MaxLen) \ {<<>>},
                            d \in BOOLEAN}

\* Two-group tables: a series for one key, then one row of another key.
TwoGroupTables ==
    UNION {{SeriesTable(k, s, FALSE) \o <<r>> :
                s \in SeqsUpTo(SeriesValues, MaxLen) \ {<<>>},
                r \in {x \in RowsIn : KeyOf(x) # k}} : k \in FreeKeys}

\* Scenario 5 of the specification: one group with a row for each of the
\* eleven training years.
Scenario5Table ==
    [j \in 1..(TRAINING_END - TRAINING_START + 1) |->
        InputRow(KeyOrder[3], TRAINING_START + j - 1, Whole(j - 1))]

\* One-group tables with a year more than once: one row more than
\* MIN_HISTORY_POINTS, each of one of the last two training years.
RepeatedYearTables ==
    { [j \in 1..(MIN_HISTORY_POINTS + 1) |-> InputRow(KeyOrder[3], ys[j], vs[j])] :
        ys \in [1..(MIN_HISTORY_POINTS + 1) -> {TRAINING_END - 1, TRAINING_END}],
        vs \in [1..(MIN_HISTORY_POINTS + 1) -> SeriesValues] }

InputTables ==
    FreeTables \cup SeriesTables \cup TwoGroupTables \cup RepeatedYearTables
    \cup {Scenario5Table}

-----------------------------------------------------------------------------
(* generate_forecasts, line 115-134: filter, group, sort *)

\* The last training year left out.
InTraining_exclusive(row) == row.Year >= TRAINING_START /\ row.Year < TRAINING_END

\* line 115
InTraining(row) == row.Year >= TRAINING_START /\ row.Year <= TRAINING_END

\* Every row of the table tagged History, the training window ignored.
TrainingRows_unfiltered(t) == [j \in 1..Len(t) |-> TypedRow(t[j], "History")]

\* line 115-118
TrainingRows(t) ==
    LET keep(row) == InTraining(row)
        kept == SelectSeq(t, keep)
    IN  [j \in 1..Len(kept) |-> TypedRow(kept[j], "History")]

\* The keys that occur, in the order of their first row in the table.
RECURSIVE GroupKeys_first_seen(_)
GroupKeys_first_seen(t) ==
    IF t = <<>> THEN <<>>
    ELSE LET before == GroupKeys_first_seen(SubSeq(t, 1, Len(t) - 1))
             key == KeyOf(t[Len(t)])
         IN  IF \E g \in DOMAIN before : before[g] = key THEN before
             ELSE Append(before, key)

\* df_train.groupby([...]): the keys that occur, sorted.
GroupKeys(t) ==
    LET occurs(key) == \E j \in 1..Len(t) : KeyOf(t[j]) = key
    IN  SelectSeq(KeyOrder, occurs)

\* A group made of every row of the table, whatever its key.
GroupRows_all(t, key) == t

\* line 123, 128: the rows of one group, in table order
GroupRows(t, key) ==
    LET mine(row) == KeyOf(row) = key
    IN  SelectSeq(t, mine)

\* No sort: the rows of the group in table order.
SortByYear_none(rows) == rows

\* group.sort_values("Year"): ascending, rows of one year in table order.
\* Row j goes behind the rows of an earlier year and the rows of its own year
\* that stand before it in the table.
SortByYear(rows) ==
    LET place(j) ==
            Cardinality({k \in 1..Len(rows) : rows[k].Year < rows[j].Year})
            + Cardinality({k \in 1..j : rows[k].Year = rows[j].Year})
    IN  [p \in 1..Len(rows) |-> rows[CHOOSE j \in 1..Len(rows) : place(j) = p]]

\* group.set_index("Year")["Value"]
SeriesOfGroup(t, key) ==
    LET sorted == SortByYear(GroupRows(t, key))
    IN  [j \in 1..Len(sorted) |-> [Year |-> sorted[j].Year, Value |-> sorted[j].Value]]

SeriesValuesOf(s) == [j \in 1..Len(s) |-> s[j].Value]

-----------------------------------------------------------------------------
(* The forecasters, line 43-101 *)

\* line 56: Series.mean() of no values is NaN and raises nothing.  NaN is
\* written as a value that no arithmetic of the model produces.
NaN == 0 - Scale * Scale * Scale

Mean(v) == IF v = <<>> THEN NaN ELSE SumSeq(v) \div Len(v)

\* A sum of the last values always divided by 3, however many they are.
simple_moving_average_by_three(s, periods) ==
    LET window == Min(3, Len(s))
        avg == SumSeq(TailN(SeriesValuesOf(s), window)) \div 3
    IN  [h \in 1..periods |-> avg]

\* A moving average over the first values of the series instead of the last.
simple_moving_average_head(s, periods) ==
    LET window == Min(3, Len(s))
        avg == Mean(SubSeq(SeriesValuesOf(s), 1, window))
    IN  [h \in 1..periods |-> avg]

\* line 55-58
simple_moving_average(s, periods) ==
    LET window == Min(3, Len(s))
        avg == Mean(TailN(SeriesValuesOf(s), window))
    IN  [h \in 1..periods |-> avg]

\* A count of the values that are not negative, zero included.
non_zero_count_with_zero(s) == Cardinality({j \in 1..Len(s) : s[j].Value >= 0})

\* A count of all the points of the series instead of the positive ones.
non_zero_count_length(s) == Len(s)

\* line 96
non_zero_count(s) == Cardinality({j \in 1..Len(s) : s[j].Value > 0})

\* line 98
SelectsAverage(s) == non_zero_count(s) < MIN_HISTORY_POINTS

\* line 72-74: statsmodels fits a level and a trend at the last training
\* point and projects level + h * trend.  The optimiser's result is not a
\* function the source computes: it is any of these fits.
HoltFits ==
    { [level |-> Whole(58), trend |-> Tenth(65)],
      [level |-> Tenth(42), trend |-> (0 - Tenth(13)) \div 2] }

\* A projection that starts at the level itself: level + (h - 1) * trend.
HoltForecast_from_level(f, periods) == [h \in 1..periods |-> f.level + (h - 1) * f.trend]

\* line 74; the forecast equation of scripts/update_notebook.py, line 85-86
HoltForecast(f, periods) == [h \in 1..periods |-> f.level + h * f.trend]

-----------------------------------------------------------------------------
(* generate_forecasts, line 140-167: assemble and post-process *)

\* line 154-155
Concatenated(train, forecasts) == train \o Flatten(forecasts)

\* range(FORECAST_START, FORECAST_END): the last year left out.
forecast_years_exclusive == [j \in 1..(FORECAST_END - FORECAST_START) |-> FORECAST_START + j - 1]

forecast_years == [j \in 1..FORECAST_HORIZON |-> FORECAST_START + j - 1]

\* Forecast rows whose values are clipped as each group is processed.
forecast_rows_clipped(key, values) ==
    [j \in 1..Len(forecast_years) |->
        TypedRow(InputRow(key, forecast_years[j],
                          IF values[j] < 0 THEN 0 ELSE values[j]), "Forecast")]

\* line 141-149
forecast_rows(key, values) ==
    [j \in 1..Len(forecast_years) |->
        TypedRow(InputRow(key, forecast_years[j], values[j]), "Forecast")]

\* No clipping at all.
ClipValue_none(x) == x

\* line 162
ClipValue(x) == IF x < 0 THEN 0 ELSE x

ClipTable(t) == [j \in 1..Len(t) |-> [t[j] EXCEPT !.Value = ClipValue(@)]]

\* Rounding to the nearest integer with a tie going up.
RoundValue_half_up(x) == Whole((2 * x + Scale) \div (2 * Scale))

\* Rounding up to the next integer, whole values included.
RoundValue_up(x) == Whole(x \div Scale + 1)

\* line 167: Series.round(0) rounds half to even.
RoundValue(x) ==
    LET q == x \div Scale
        r == x % Scale
    IN  IF 2 * r < Scale THEN Whole(q)
        ELSE IF 2 * r > Scale THEN Whole(q + 1)
        ELSE IF q % 2 = 0 THEN Whole(q) ELSE Whole(q + 1)

\* A mask that selects every row.
IsDiscrete_any(metric) == TRUE

\* line 27-28, 165-166
IsDiscrete(metric) == \E m \in DOMAIN DISCRETE_METRICS : DISCRETE_METRICS[m] = metric

RoundTable(t) ==
    [j \in 1..Len(t) |->
        IF IsDiscrete(t[j].Metric) THEN [t[j] EXCEPT !.Value = RoundValue(@)]
        ELSE t[j]]

-----------------------------------------------------------------------------
(* The state machine *)

NoFit == "none"

NoFile == [exists |-> FALSE, rows |-> <<>>]
FileOf(t) == [exists |-> TRUE, rows |-> t]

Init ==
    /\ year_arg = 0 /\ range_at = 0 /\ period = ""
    /\ melted = <<>>
    /\ clean_metrics \in {FileOf(t) : t \in InputTables} \cup {NoFile}
    /\ forecasts_parquet = NoFile
    /\ df = <<>>
    /\ pc = "load"
    /\ df_train = <<>>
    /\ groups = <<>>
    /\ i = 0
    /\ series = <<>>
    /\ fit = NoFit
    /\ forecast_values = <<>>
    /\ all_forecasts = <<>>
    /\ result = <<>>

\* line 204, 40: pd.read_parquet of the input file
Load ==
    /\ pc = "load"
    /\ clean_metrics.exists
    /\ df' = clean_metrics.rows
    /\ pc' = "filter"
    /\ UNCHANGED <<df_train, groups, i, series, fit, forecast_values,
                   all_forecasts, result>>
    /\ UNCHANGED files

\* An input file that is missing read as an empty table.
LoadRaises_empty ==
    /\ pc = "load"
    /\ ~clean_metrics.exists
    /\ df' = <<>>
    /\ pc' = "filter"
    /\ UNCHANGED <<df_train, groups, i, series, fit, forecast_values,
                   all_forecasts, result>>
    /\ UNCHANGED files

\* line 204, 40: pd.read_parquet raises FileNotFoundError
LoadRaises ==
    /\ pc = "load"
    /\ ~clean_metrics.exists
    /\ pc' = "raised"
    /\ UNCHANGED <<df, df_train, groups, i, series, fit, forecast_values,
                   all_forecasts, result>>
    /\ UNCHANGED files

\* A filter that tags the table passed in instead of a copy of its rows.
Filter_tags_input ==
    /\ pc = "filter"
    /\ df' = [j \in 1..Len(df) |-> TypedRow(df[j], "History")]
    /\ df_train' = TrainingRows(df)
    /\ groups' = GroupKeys(df_train')
    /\ i' = 0
    /\ all_forecasts' = <<>>
    /\ pc' = "for"
    /\ UNCHANGED <<series, fit, forecast_values, result>>
    /\ UNCHANGED files

\* line 115-124
Filter ==
    /\ pc = "filter"
    /\ df_train' = TrainingRows(df)
    /\ groups' = GroupKeys(df_train')
    /\ i' = 0
    /\ all_forecasts' = <<>>
    /\ pc' = "for"
    /\ UNCHANGED <<df, series, fit, forecast_values, result>>
    /\ UNCHANGED files

\* line 128-134: the next group
ForNext ==
    /\ pc = "for"
    /\ i < Len(groups)
    /\ series' = SeriesOfGroup(df_train, groups[i + 1])
    /\ fit' = NoFit
    /\ forecast_values' = <<>>
    /\ pc' = "forecast_series"
    /\ UNCHANGED <<df, df_train, groups, i, all_forecasts, result>>
    /\ UNCHANGED files

\* line 128: the loop is over
ForDone ==
    /\ pc = "for"
    /\ i = Len(groups)
    /\ pc' = "concat"
    /\ UNCHANGED <<df, df_train, groups, i, series, fit, forecast_values,
                   all_forecasts, result>>
    /\ UNCHANGED files

\* line 96-99
SelectAverage ==
    /\ pc = "forecast_series"
    /\ SelectsAverage(series)
    /\ pc' = "simple_moving_average"
    /\ UNCHANGED <<df, df_train, groups, i, series, fit, forecast_values,
                   all_forecasts, result>>
    /\ UNCHANGED files

\* line 96-101
SelectTrend ==
    /\ pc = "forecast_series"
    /\ ~SelectsAverage(series)
    /\ pc' = "holts_linear_trend"
    /\ UNCHANGED <<df, df_train, groups, i, series, fit, forecast_values,
                   all_forecasts, result>>
    /\ UNCHANGED files

\* line 56-58, called from line 99
Average ==
    /\ pc = "simple_moving_average"
    /\ forecast_values' = simple_moving_average(series, FORECAST_HORIZON)
    /\ pc' = "forecast_rows"
    /\ UNCHANGED <<df, df_train, groups, i, series, fit, all_forecasts, result>>
    /\ UNCHANGED files

\* line 72-75: the fit returns.  An optimiser that did not converge is
\* reported by the library as a warning, and the fit is returned all the
\* same; the source never looks at it.
HoltReturns ==
    /\ pc = "holts_linear_trend"
    /\ \E f \in HoltFits, converged \in BOOLEAN :
        /\ fit' = IF converged THEN "converged" ELSE "not_converged"
        /\ forecast_values' = HoltForecast(f, FORECAST_HORIZON)
    /\ pc' = "forecast_rows"
    /\ UNCHANGED <<df, df_train, groups, i, series, all_forecasts, result>>
    /\ UNCHANGED files

\* A fit whose exception is not caught and ends the call.
HoltRaises_propagates ==
    /\ pc = "holts_linear_trend"
    /\ fit' = "raised"
    /\ pc' = "raised"
    /\ UNCHANGED <<df, df_train, groups, i, series, forecast_values,
                   all_forecasts, result>>
    /\ UNCHANGED files

\* line 72-76: Holt(...), fit or forecast raises
HoltRaises ==
    /\ pc = "holts_linear_trend"
    /\ fit' = "raised"
    /\ pc' = "except"
    /\ UNCHANGED <<df, df_train, groups, i, series, forecast_values,
                   all_forecasts, result>>
    /\ UNCHANGED files

\* A handler that tries the fit again instead of averaging.
Fallback_retry ==
    /\ pc = "except"
    /\ pc' = "holts_linear_trend"
    /\ UNCHANGED <<df, df_train, groups, i, series, fit, forecast_values,
                   all_forecasts, result>>
    /\ UNCHANGED files

\* line 76-78
Fallback ==
    /\ pc = "except"
    /\ forecast_values' = simple_moving_average(series, FORECAST_HORIZON)
    /\ pc' = "forecast_rows"
    /\ UNCHANGED <<df, df_train, groups, i, series, fit, all_forecasts, result>>
    /\ UNCHANGED files

\* A loop that writes the rows gathered so far to the output file after
\* every group.
AppendForecast_checkpoint ==
    /\ pc = "forecast_rows"
    /\ all_forecasts' = Append(all_forecasts,
                               forecast_rows(groups[i + 1], forecast_values))
    /\ i' = i + 1
    /\ pc' = "for"
    /\ forecasts_parquet' = FileOf(Flatten(all_forecasts'))
    /\ UNCHANGED <<year_arg, range_at, period, melted, clean_metrics, df, df_train, groups, series, fit,
                   forecast_values, result>>

\* line 140-151
AppendForecast ==
    /\ pc = "forecast_rows"
    /\ all_forecasts' = Append(all_forecasts,
                               forecast_rows(groups[i + 1], forecast_values))
    /\ i' = i + 1
    /\ pc' = "for"
    /\ UNCHANGED <<df, df_train, groups, series, fit, forecast_values, result>>
    /\ UNCHANGED files

\* A concatenation of no tables that gives an empty table.
ConcatRaises_empty_table ==
    /\ pc = "concat"
    /\ all_forecasts = <<>>
    /\ result' = df_train
    /\ pc' = "clip"
    /\ UNCHANGED <<df, df_train, groups, i, series, fit, forecast_values,
                   all_forecasts>>
    /\ UNCHANGED files

\* line 154: pd.concat of an empty list raises ValueError
ConcatRaises ==
    /\ pc = "concat"
    /\ all_forecasts = <<>>
    /\ pc' = "raised"
    /\ UNCHANGED <<df, df_train, groups, i, series, fit, forecast_values,
                   all_forecasts, result>>
    /\ UNCHANGED files

\* line 154-159
Concat ==
    /\ pc = "concat"
    /\ all_forecasts # <<>>
    /\ result' = Concatenated(df_train, all_forecasts)
    /\ pc' = "clip"
    /\ UNCHANGED <<df, df_train, groups, i, series, fit, forecast_values,
                   all_forecasts>>
    /\ UNCHANGED files

\* line 162
Clip ==
    /\ pc = "clip"
    /\ result' = ClipTable(result)
    /\ pc' = "round"
    /\ UNCHANGED <<df, df_train, groups, i, series, fit, forecast_values,
                   all_forecasts>>
    /\ UNCHANGED files

\* line 165-169
Round ==
    /\ pc = "round"
    /\ result' = RoundTable(result)
    /\ pc' = "return"
    /\ UNCHANGED <<df, df_train, groups, i, series, fit, forecast_values,
                   all_forecasts>>
    /\ UNCHANGED files

\* line 210-218, 179-186: the returned table is written to the output file
Save ==
    /\ pc = "return"
    /\ forecasts_parquet' = FileOf(result)
    /\ pc' = "done"
    /\ UNCHANGED <<year_arg, range_at, period, melted, clean_metrics, df, df_train, groups, i, series, fit,
                   forecast_values, all_forecasts, result>>

Next ==
    \/ Load
    \/ LoadRaises
    \/ Filter
    \/ ForNext
    \/ ForDone
    \/ SelectAverage
    \/ SelectTrend
    \/ Average
    \/ HoltReturns
    \/ HoltRaises
    \/ Fallback
    \/ AppendForecast
    \/ ConcatRaises
    \/ Concat
    \/ Clip
    \/ Round
    \/ Save

Spec == Init /\ [][Next]_vars

-----------------------------------------------------------------------------
(* forecast_series(series, periods) called on its own, line 81-101 *)

\* The series a caller can pass: up to MaxLen yearly values from the start
\* of the training window, the empty series included.
CallSeries ==
    { [j \in 1..Len(v) |-> [Year |-> TRAINING_START + j - 1, Value |-> v[j]]] :
        v \in SeqsUpTo(SeriesValues, MaxLen) }

InitCall ==
    /\ year_arg = 0 /\ range_at = 0 /\ period = ""
    /\ melted = <<>>
    /\ clean_metrics = NoFile
    /\ forecasts_parquet = NoFile
    /\ df = <<>>
    /\ pc = "forecast_series"
    /\ df_train = <<>>
    /\ groups = <<>>
    /\ i = 0
    /\ series \in CallSeries
    /\ fit = NoFit
    /\ forecast_values = <<>>
    /\ all_forecasts = <<>>
    /\ result = <<>>

NextCall ==
    \/ SelectAverage
    \/ SelectTrend
    \/ Average
    \/ HoltReturns
    \/ HoltRaises
    \/ Fallback

SpecCall == InitCall /\ [][NextCall]_vars

-----------------------------------------------------------------------------
(* Properties *)

\* What generate_forecasts holds before the post-processing: line 155.
Combined == Concatenated(df_train, all_forecasts)

\* The forecast path of the current series went through simple_moving_average.
AveragePath == fit \in {NoFit, "raised"}

\* C1: the Average Forecaster is chosen when fewer than 3 values of the
\* series are strictly positive, the Trend Forecaster otherwise, whatever the
\* length of the series.
C1_SelectionByPositiveCount ==
    LET positive == {j \in DOMAIN series : series[j].Value > 0}
    IN  /\ pc = "simple_moving_average" => Cardinality(positive) < 3
        /\ pc \in {"holts_linear_trend", "except"} => Cardinality(positive) >= 3
        /\ pc = "forecast_rows" => (fit = NoFit <=> Cardinality(positive) < 3)

\* A series longer than 3 with only 1 or 2 positive entries goes to the
\* Average Forecaster.
C1_Witness ==
    /\ pc = "simple_moving_average"
    /\ Len(series) > 3
    /\ Cardinality({j \in DOMAIN series : series[j].Value > 0}) \in {1, 2}

\* C2: every group processed gets exactly 10 Forecast rows, one for each of
\* the years 2026..2035, whichever forecaster produced them and whether or
\* not the fit raised.
C2_TenForecastRows ==
    /\ Len(all_forecasts) <= Len(groups)
    /\ \A g \in DOMAIN all_forecasts :
        /\ Len(all_forecasts[g]) = 10
        /\ \A j \in 1..10 :
            /\ all_forecasts[g][j].Year = 2025 + j
            /\ all_forecasts[g][j].Type = "Forecast"
            /\ KeyOf(all_forecasts[g][j]) = groups[g]
    /\ pc \in {"concat", "clip", "round", "return"} => Len(all_forecasts) = Len(groups)
    /\ pc = "return" =>
        \A g \in DOMAIN groups, y \in 2026..2035 :
            Cardinality({j \in DOMAIN result :
                            /\ result[j].Type = "Forecast"
                            /\ KeyOf(result[j]) = groups[g]
                            /\ result[j].Year = y}) = 1

\* Two groups are done, one forecast by each path, the last after a fit that raised.
C2_Witness ==
    /\ pc = "return"
    /\ Len(groups) = 2
    /\ fit = "raised"

Scenario2Table == SeriesTable(KeyOrder[3], <<Whole(0), Whole(5), Whole(7)>>, FALSE)

\* C4: for the series [0, 5, 7] the Average Forecaster is selected and all 10
\* forecast years equal (5 + 7) / 2 = 6.
C4_Scenario2IsSix ==
    df = Scenario2Table =>
        /\ pc # "holts_linear_trend"
        /\ pc = "forecast_rows" => \A h \in 1..10 : forecast_values[h] = Whole(6)
        /\ pc = "return" =>
            \A j \in DOMAIN result :
                result[j].Type = "Forecast" => result[j].Value = Whole(6)

\* C5: whenever the fit fails to converge or raises, holts_linear_trend
\* returns the projection simple_moving_average gives for the same series.
C5_FailedFitFallsBack ==
    (pc = "forecast_rows" /\ fit \in {"raised", "not_converged"}) =>
        forecast_values = simple_moving_average(series, FORECAST_HORIZON)

\* C6: every row of the returned table has Value >= 0, and a value below 0
\* before the post-processing is exactly 0 in the output.
C6_NonNegative ==
    pc = "return" =>
        /\ Len(result) = Len(Combined)
        /\ \A j \in DOMAIN result :
            /\ result[j].Value >= 0
            /\ Combined[j].Value < 0 => result[j].Value = 0

\* A raw forecast of -2.3 and a negative historical value, both 0 in the output.
C6_Witness ==
    /\ pc = "return"
    /\ \E j \in DOMAIN result :
        /\ result[j].Type = "Forecast"
        /\ Combined[j].Value = Tenth(-23)
        /\ result[j].Value = 0
    /\ \E j \in DOMAIN result :
        /\ result[j].Type = "History"
        /\ Combined[j].Value < 0

\* C7: in the returned table every value of a discrete-count metric is a
\* whole number, and every value of another metric is its value before the
\* post-processing, negatives clipped to 0 and nothing else changed.
C7_WholeOrUnrounded ==
    pc = "return" =>
        /\ Len(result) = Len(Combined)
        /\ \A j \in DOMAIN result :
            IF result[j].Metric \in {"Publication Quantity", "Citation Quantity"}
            THEN result[j].Value % Scale = 0
            ELSE result[j].Value =
                    IF Combined[j].Value < 0 THEN 0 ELSE Combined[j].Value

\* A continuous value that stays fractional beside a discrete value that
\* was rounded, in History and in Forecast rows.
C7_Witness ==
    /\ pc = "return"
    /\ \E j \in DOMAIN result :
        /\ result[j].Metric = "Field-Weighted Citation Impact"
        /\ result[j].Type = "History"
        /\ result[j].Value % Scale # 0
    /\ \E j \in DOMAIN result :
        /\ result[j].Metric = "Publication Quantity"
        /\ result[j].Type = "Forecast"
        /\ Combined[j].Value % Scale # 0

\* C8: the Post-Processor is idempotent: clipping and rounding the returned
\* table once more changes no value.
C8_PostProcessIdempotent ==
    pc = "return" => RoundTable(ClipTable(result)) = result

\* The post-processing changed the table it is applied to a second time.
C8_Witness ==
    /\ pc = "return"
    /\ \E j \in DOMAIN result : Combined[j].Value < 0
    /\ \E j \in DOMAIN result :
        Combined[j].Value > 0 /\ result[j].Value # Combined[j].Value

KeysIn(t) == {KeyOf(t[j]) : j \in DOMAIN t}
YearsOf(t, key) == {t[j].Year : j \in {x \in DOMAIN t : KeyOf(t[x]) = key}}
RowCount(t, key) == Cardinality({j \in DOMAIN t : KeyOf(t[j]) = key})

\* C9: for every triple of the combined table the years present are the
\* training-window years with an input row for the triple, and 2026..2035;
\* with one input row per year the triple has (training rows + 10) rows, no
\* year twice.
C9_YearsPerTriple ==
    pc = "return" =>
        \A key \in KeysIn(result) :
            LET trained == {y \in YearsOf(df, key) : y >= 2015 /\ y <= 2025}
                once == \A a, b \in DOMAIN df :
                            (KeyOf(df[a]) = key /\ KeyOf(df[b]) = key
                             /\ df[a].Year = df[b].Year) => a = b
            IN  /\ YearsOf(result, key) = trained \cup (2026..2035)
                /\ once => RowCount(result, key) = Cardinality(trained) + 10
                /\ once => RowCount(result, key) = Cardinality(YearsOf(result, key))

\* Scenario 5: 11 history years give 21 rows covering 2015..2035.
C9_Witness ==
    /\ pc = "return"
    /\ df = Scenario5Table
    /\ Len(result) = 21
    /\ YearsOf(result, KeyOrder[3]) = 2015..2035

\* C10: every triple that appears in the input table has Forecast rows for
\* all of the years 2026..2035 in the output table.
C10_EveryInputTripleForecast ==
    pc = "return" =>
        \A key \in KeysIn(df) :
            \A y \in 2026..2035 :
                \E j \in DOMAIN result :
                    /\ KeyOf(result[j]) = key
                    /\ result[j].Type = "Forecast"
                    /\ result[j].Year = y

-----------------------------------------------------------------------------
(* Claims C11 to C20 *)

\* C11: the Average Forecaster given an empty series raises nothing and
\* returns FORECAST_HORIZON values that are all 0.
C11_EmptySeriesForecastsZero ==
    (pc = "forecast_rows" /\ series = <<>>) =>
        /\ Len(forecast_values) = FORECAST_HORIZON
        /\ \A h \in 1..Len(forecast_values) : forecast_values[h] = Whole(0)

\* line 128-155: where series number g of the batch stands.
HasForecastRows(t, key) ==
    \E j \in 1..Len(t) : KeyOf(t[j]) = key /\ t[j].Type = "Forecast"

SeriesState(g) ==
    IF g <= i THEN
        IF HasForecastRows(result, groups[g]) THEN "Merged" ELSE "Forecasted"
    ELSE IF g > i + 1 THEN "Pending"
    ELSE IF pc = "simple_moving_average" THEN "Selected: Average"
    ELSE IF pc = "holts_linear_trend" THEN "Selected: Trend"
    ELSE IF pc = "except" THEN "Fallback"
    ELSE IF pc = "forecast_rows" THEN (IF fit = "raised" THEN "Fallback" ELSE "Fitted")
    ELSE "Pending"

StateRank(st) ==
    CASE st = "Pending" -> 0
      [] st \in {"Selected: Average", "Selected: Trend"} -> 1
      [] st \in {"Fitted", "Fallback"} -> 2
      [] st = "Forecasted" -> 3
      [] st = "Merged" -> 4

\* C12: every series moves through Pending, Selected (Trend or Average),
\* Fitted or Fallback, Forecasted and Merged in that order, one state at a
\* time and never backwards; the Trend fit is entered only from the
\* selection and the fallback only from a failed Trend fit, so each happens
\* at most once per series; when the run has completed every series is
\* Merged, and a Merged series stays Merged.
C12_SeriesLifecycle ==
    /\ [][/\ \A g \in 1..Len(groups') :
               StateRank(SeriesState(g))' \in
                   {StateRank(SeriesState(g)), StateRank(SeriesState(g)) + 1}
          /\ pc' = "holts_linear_trend" => pc = "forecast_series"
          /\ pc' = "except" => pc = "holts_linear_trend"
          /\ (pc = "except" \/ fit = "raised") => pc' # "holts_linear_trend"]_vars
    /\ [](pc \in {"return", "done"} =>
            \A g \in 1..Len(groups) : SeriesState(g) = "Merged")

C12_Witness ==
    /\ pc = "done"
    /\ Len(groups) = 2
    /\ fit = "raised"
    /\ \A g \in 1..Len(groups) : SeriesState(g) = "Merged"

\* The input has at least one row of the training window.
HasTrainingRow ==
    clean_metrics.exists /\ \E j \in DOMAIN clean_metrics.rows :
                                InTraining(clean_metrics.rows[j])

\* C13: for an input with at least one training-window row, whichever fits
\* fail, the run never ends in an exception and never stops before the table
\* is returned and saved, and the table returned holds the history rows and
\* 10 Forecast rows of every series, those processed before and after a
\* failed fit included.
C13_FailedFitDoesNotAbort ==
    HasTrainingRow =>
        /\ pc # "raised"
        /\ pc # "done" => ENABLED Next
        /\ pc = "return" =>
            /\ Len(result) = Len(df_train) + FORECAST_HORIZON * Len(groups)
            /\ \A g \in 1..Len(groups) :
                Cardinality({j \in DOMAIN result :
                    KeyOf(result[j]) = groups[g] /\ result[j].Type = "Forecast"})
                    = FORECAST_HORIZON

C13_Witness ==
    /\ pc = "return"
    /\ fit = "raised"
    /\ Len(groups) = 2
    /\ Cardinality({j \in DOMAIN result :
           KeyOf(result[j]) = groups[1] /\ result[j].Type = "Forecast"})
           = FORECAST_HORIZON

\* C14: while the groups are processed no value is clipped or rounded: the
\* history rows keep the input values, the Forecast rows appended for a group
\* hold the forecaster's values as returned and are never rewritten.  The
\* table is only touched between the concatenation and the return: it is
\* first the whole concatenation of history and all groups' forecast rows,
\* unchanged, then clipped in one step, then rounded in one step, and the
\* clip and round steps are each taken once, in that order.
C14_PostProcessOnceAtEnd ==
    /\ [][/\ (pc = "forecast_rows" /\ pc' = "for") =>
               \A j \in 1..FORECAST_HORIZON :
                   all_forecasts'[i + 1][j].Value = forecast_values[j]
          /\ \A g \in DOMAIN all_forecasts : all_forecasts'[g] = all_forecasts[g]
          /\ pc \notin {"load", "filter"} => df_train' = df_train
          /\ result' # result => pc \in {"concat", "clip", "round"}
          /\ pc' = "clip" => pc = "concat"
          /\ pc' = "round" => pc = "clip"
          /\ pc' = "return" => pc = "round"]_vars
    /\ [](pc \notin {"load", "filter"} =>
            /\ Len(df_train) = Len(TrainingRows(df))
            /\ \A j \in DOMAIN df_train : df_train[j].Value = TrainingRows(df)[j].Value)
    /\ [](pc \in {"for", "forecast_series", "simple_moving_average",
                  "holts_linear_trend", "except", "forecast_rows", "concat"} =>
            result = <<>>)
    /\ [](pc = "clip" =>
            /\ Len(all_forecasts) = Len(groups)
            /\ result = df_train \o Flatten(all_forecasts))
    /\ [](pc = "round" =>
            \A j \in DOMAIN result :
                result[j].Value = IF Combined[j].Value < 0 THEN 0 ELSE Combined[j].Value)

C14_Witness ==
    /\ pc = "clip"
    /\ Len(groups) = 2
    /\ \E j \in DOMAIN result : result[j].Type = "Forecast" /\ result[j].Value < 0
    /\ \E j \in DOMAIN result : result[j].Type = "History" /\ result[j].Value < 0

C16_MissingInputFailsAtLoad ==
    ~clean_metrics.exists =>
        /\ pc \in {"load", "raised"}
        /\ df = <<>> /\ df_train = <<>> /\ groups = <<>>
        /\ forecast_values = <<>> /\ all_forecasts = <<>> /\ result = <<>>
        /\ ~forecasts_parquet.exists

C16_Witness == ~clean_metrics.exists /\ pc = "raised"

C19_ExampleAReported ==
    pc = "return" =>
        \A j \in DOMAIN result :
            (/\ result[j].Type = "Forecast"
             /\ result[j].Metric = "Publication Quantity") =>
                /\ (result[j].Year = 2026 /\ Combined[j].Value = Tenth(645)) =>
                       result[j].Value = Whole(65)
                /\ (result[j].Year = 2030 /\ Combined[j].Value = Tenth(905)) =>
                       result[j].Value = Whole(91)

\* The input table with rows a and b exchanged.
Swap(t, a, b) ==
    [j \in 1..Len(t) |-> IF j = a THEN t[b] ELSE IF j = b THEN t[a] ELSE t[j]]

\* C20 as stated: whichever two rows of the input table are exchanged, the
\* series of the current group is handed over in ascending year order and the
\* Average Forecaster's values for the group are the same.
C20_SameForEveryRowOrder ==
    pc = "forecast_rows" =>
        \A a, b \in DOMAIN df :
            a < b =>
                LET s2 == SeriesOfGroup(TrainingRows(Swap(df, a, b)), groups[i + 1])
                IN  /\ \A j \in 1..(Len(s2) - 1) : s2[j].Year <= s2[j + 1].Year
                    /\ AveragePath =>
                        simple_moving_average(s2, FORECAST_HORIZON) = forecast_values

\* C20, amended: when the group has at most one training-window row per
\* year, whichever two rows of the input table are exchanged, the series
\* handed to the forecaster is the same series, in strictly ascending year
\* order and made of the group's rows only, so the forecaster is given the
\* same input and the Average Forecaster's values are the same.
C20_SameForEveryRowOrder_OneRowPerYear ==
    (/\ pc = "forecast_rows"
     /\ \A a, b \in DOMAIN df_train :
            (a < b /\ KeyOf(df_train[a]) = groups[i + 1]
                   /\ KeyOf(df_train[b]) = groups[i + 1]) =>
                df_train[a].Year # df_train[b].Year) =>
        /\ \A j \in 1..(Len(series) - 1) : series[j].Year < series[j + 1].Year
        /\ Len(series) = RowCount(df_train, groups[i + 1])
        /\ \A a, b \in DOMAIN df :
            a < b =>
                LET s2 == SeriesOfGroup(TrainingRows(Swap(df, a, b)), groups[i + 1])
                IN  /\ s2 = series
                    /\ AveragePath =>
                        simple_moving_average(s2, FORECAST_HORIZON) = forecast_values

\* A series of more than MIN_HISTORY_POINTS years whose rows are not in year
\* order in the input table.
C20_Witness ==
    /\ pc = "forecast_rows"
    /\ Len(series) > MIN_HISTORY_POINTS
    /\ \A j \in 1..(Len(series) - 1) : series[j].Year < series[j + 1].Year
    /\ \E a, b \in DOMAIN df :
        a < b /\ KeyOf(df[a]) = groups[i + 1] /\ KeyOf(df[b]) = groups[i + 1]
              /\ df[a].Year > df[b].Year /\ df[a].Value # df[b].Value

-----------------------------------------------------------------------------
(* Claims C21 to C30 *)

\* The input table without row j, and with a row put in front or behind.
DropRow(t, j) == SubSeq(t, 1, j - 1) \o SubSeq(t, j + 1, Len(t))
AddRow(t, row, front) == IF front THEN <<row>> \o t ELSE Append(t, row)

\* C21: whichever row of another group is removed from the input table, and
\* whichever training-window row of another group is added to it, the series
\* handed to the forecaster for the current group is the same and so are the
\* Average Forecaster's values (changing a row is removing it and adding
\* another);
\* the Forecast rows appended for the group hold the group's key and the
\* forecaster's values only, and in the returned table each group's Forecast
\* values are its own appended values, clipped and rounded.
C21_GroupsAreIndependent ==
    /\ pc = "forecast_rows" =>
        LET key == groups[i + 1]
            same(t) ==
                LET s2 == SeriesOfGroup(TrainingRows(t), key)
                IN  /\ s2 = series
                    /\ AveragePath =>
                        simple_moving_average(s2, FORECAST_HORIZON) = forecast_values
        IN  /\ \A j \in DOMAIN df : KeyOf(df[j]) # key => same(DropRow(df, j))
            /\ \A k \in Keys \ {key}, v \in ValuesIn, front \in BOOLEAN :
                    same(AddRow(df, InputRow(k, TRAINING_END, v), front))
    /\ \A g \in DOMAIN all_forecasts : \A j \in DOMAIN all_forecasts[g] :
            KeyOf(all_forecasts[g][j]) = groups[g]
    /\ pc = "return" =>
        \A g \in DOMAIN all_forecasts : \A j \in 1..FORECAST_HORIZON :
            LET row == result[Len(df_train) + FORECAST_HORIZON * (g - 1) + j]
                own == ClipValue(all_forecasts[g][j].Value)
            IN  /\ KeyOf(row) = groups[g]
                /\ row.Value = IF IsDiscrete(groups[g].Metric) THEN RoundValue(own) ELSE own

\* The second of two groups has its forecast while the first group's rows
\* are in the table.
C21_Witness ==
    /\ pc = "forecast_rows"
    /\ Len(groups) = 2
    /\ i = 1
    /\ Len(series) >= 2
    /\ \E j \in DOMAIN df : KeyOf(df[j]) # groups[2] /\ InTraining(df[j])

\* C22: in the returned table the History rows are, one for one and in table
\* order, the input rows with a year in 2015..2025, with the same key and
\* year; the Forecast rows are the rows generated for the groups, 10 for each
\* group with the years 2026..2035; every row is History or Forecast.
C22_TypeTags ==
    pc = "return" =>
        LET history == {j \in DOMAIN result : result[j].Type = "History"}
            forecast == {j \in DOMAIN result : result[j].Type = "Forecast"}
            inside == {j \in DOMAIN df : df[j].Year >= 2015 /\ df[j].Year <= 2025}
        IN  /\ history \cup forecast = DOMAIN result
            /\ history = 1..Cardinality(inside)
            /\ \A j \in history :
                LET src == CHOOSE x \in inside :
                               Cardinality({y \in inside : y <= x}) = j
                IN  /\ KeyOf(result[j]) = KeyOf(df[src])
                    /\ result[j].Year = df[src].Year
            /\ Cardinality(forecast) = 10 * Len(groups)
            /\ \A j \in forecast :
                /\ result[j].Year >= 2026 /\ result[j].Year <= 2035
                /\ result[j] = [all_forecasts[((j - Cardinality(inside) - 1) \div 10) + 1]
                                     [((j - Cardinality(inside) - 1) % 10) + 1]
                                 EXCEPT !.Value = result[j].Value]

C22_Witness ==
    /\ pc = "return"
    /\ Len(groups) = 2
    /\ \E j \in DOMAIN df : df[j].Year < 2015
    /\ \E j \in DOMAIN result : result[j].Type = "History"

\* C23: a series of one or more values that are all zero goes to the Average
\* Forecaster, never to the Trend fit, its 10 forecast values are 0, and the
\* Forecast rows of its group in the returned table are 0.
C23_AllZeroSeries ==
    /\ (/\ pc \in {"simple_moving_average", "holts_linear_trend", "except",
                    "forecast_rows"}
        /\ Len(series) >= 1
        /\ \A j \in DOMAIN series : series[j].Value = 0) =>
            /\ pc \notin {"holts_linear_trend", "except"}
            /\ fit = NoFit
            /\ pc = "forecast_rows" =>
                /\ Len(forecast_values) = 10
                /\ \A h \in 1..10 : forecast_values[h] = 0
    /\ pc = "return" =>
        \A g \in DOMAIN groups :
            (\A j \in DOMAIN df_train :
                KeyOf(df_train[j]) = groups[g] => df_train[j].Value = 0) =>
                \A j \in DOMAIN result :
                    (KeyOf(result[j]) = groups[g] /\ result[j].Type = "Forecast") =>
                        result[j].Value = 0

\* Four years of zeros, forecast and returned.
C23_Witness ==
    /\ pc = "return"
    /\ Len(df_train) > MIN_HISTORY_POINTS
    /\ Len(groups) = 1
    /\ \A j \in DOMAIN df_train : df_train[j].Value = 0
    /\ Len(result) = Len(df_train) + 10
    /\ \A j \in DOMAIN result : result[j].Value = 0

C25_InputUntouched ==
    pc # "load" =>
        /\ df = clean_metrics.rows
        /\ \A j \in DOMAIN df :
            DOMAIN df[j] = {"RegionCode", "Region", "School", "Year", "Metric", "Value"}

\* A negative input value that the returned table shows clipped.
C25_Witness ==
    /\ pc = "return"
    /\ \E j \in DOMAIN df : InTraining(df[j]) /\ df[j].Value < 0
    /\ \A j \in DOMAIN result : result[j].Value >= 0

-----------------------------------------------------------------------------
(* clean_values of src/src/etl.py, line 157-190.  A text is the sequence of *)
(* its characters, so that upper, contains, strip and the parsing of a     *)
(* number are computed.                                                    *)

MaxRaw == 2       \* rows of a frame passed to clean_values

LowerCase == <<"a", "c", "g", "n", "r">>
UpperCase == <<"A", "C", "G", "N", "R">>
DigitChars == <<"0", "1", "2", "3", "4", "5", "6", "7", "8", "9">>

\* str.upper()
UpperText(t) ==
    [j \in 1..Len(t) |->
        IF \E k \in DOMAIN LowerCase : LowerCase[k] = t[j]
        THEN UpperCase[CHOOSE k \in DOMAIN LowerCase : LowerCase[k] = t[j]]
        ELSE t[j]]

\* str.contains(pattern)
ContainsText(t, pattern) ==
    \E k \in 0..(Len(t) - Len(pattern)) : SubSeq(t, k + 1, k + Len(pattern)) = pattern

\* str.strip()
StripText(t) ==
    LET solid == {j \in DOMAIN t : t[j] # " "}
    IN  IF solid = {} THEN <<>>
        ELSE SubSeq(t, CHOOSE j \in solid : \A k \in solid : j <= k,
                       CHOOSE j \in solid : \A k \in solid : j >= k)

IsDigits(t) ==
    t # <<>> /\ \A j \in DOMAIN t : \E d \in DOMAIN DigitChars : DigitChars[d] = t[j]

RECURSIVE DigitsValue(_)
DigitsValue(t) ==
    IF t = <<>> THEN 0
    ELSE LET last == t[Len(t)]
             d == CHOOSE x \in DOMAIN DigitChars : DigitChars[x] = last
         IN  10 * DigitsValue(SubSeq(t, 1, Len(t) - 1)) + (d - 1)

\* An entry of the Value column as read from the spreadsheet: a number, a
\* text or a missing cell.
NumberEntry(n) == [kind |-> "number", num |-> n, text |-> <<>>]
TextEntry(t) == [kind |-> "text", num |-> 0, text |-> t]
MissingEntry == [kind |-> "missing", num |-> 0, text |-> <<>>]

\* line 172: the entries replaced by pd.NA
Blanks == {TextEntry(<<"-">>), TextEntry(<<" ", "-", " ">>), TextEntry(<<>>)}

\* line 173: pd.to_numeric(errors="coerce") of one entry; a text that is not
\* a number, and a missing cell, give NaN.
ToNumericEntry(e) ==
    IF e.kind = "number" THEN e.num
    ELSE IF e.kind = "missing" THEN NaN
    ELSE IF IsDigits(e.text) THEN Whole(DigitsValue(e.text))
    ELSE IF Len(e.text) > 1 /\ e.text[1] = "-" /\ IsDigits(Tail(e.text))
         THEN 0 - Whole(DigitsValue(Tail(e.text)))
    ELSE NaN

\* line 169
REGION_XIII == <<"R", "E", "G", "I", "O", "N", " ", "X", "I", "I", "I">>
CARAGA == <<"C", "A", "R", "A", "G", "A">>

\* The frames passed in: up to MaxRaw rows, the region named in upper case,
\* in mixed case between blanks, or another region; codes with and without
\* blanks around them; values of every kind.
RawPlaces ==
    { [code |-> <<"V", "I", "I", "I">>, region |-> CARAGA \o <<" ", "R">>],
      [code |-> <<" ", "I", "V", " ">>, region |-> <<" ", "C", "a", "r", "a", "g", "a", " ">>],
      [code |-> <<" ", "I", "V", " ">>, region |-> <<"N", "C", "R", " ">>],
      [code |-> <<"V", "I", "I", "I">>, region |-> <<"n", "c", "r">>] }
RawValues ==
    Blanks \cup { NumberEntry(Whole(7)), NumberEntry(Tenth(25)), MissingEntry,
                  TextEntry(<<"1", "2">>), TextEntry(<<"n", "/", "a">>) }
RawRows ==
    { [RegionCode |-> p.code, Region |-> p.region, School |-> <<" ", "B", "S", "U">>,
       Year |-> <<"2", "0", "2", "4">>, Metric |-> "Publication Quantity",
       Value |-> v] : p \in RawPlaces, v \in RawValues }
RawTables == SeqsUpTo(RawRows, MaxRaw)

InitClean ==
    /\ year_arg = 0 /\ range_at = 0 /\ period = ""
    /\ melted \in RawTables
    /\ df = melted
    /\ pc = "clean_caraga"
    /\ clean_metrics = NoFile
    /\ forecasts_parquet = NoFile
    /\ df_train = <<>>
    /\ groups = <<>>
    /\ i = 0
    /\ series = <<>>
    /\ fit = NoFit
    /\ forecast_values = <<>>
    /\ all_forecasts = <<>>
    /\ result = <<>>

CleanFrame == <<year_arg, range_at, period, melted, clean_metrics, forecasts_parquet, df_train, groups, i, series,
                fit, forecast_values, all_forecasts, result>>

\* line 168-169
CaragaFix ==
    /\ pc = "clean_caraga"
    /\ df' = [j \in 1..Len(df) |->
                IF ContainsText(UpperText(df[j].Region), CARAGA)
                THEN [df[j] EXCEPT !.RegionCode = REGION_XIII]
                ELSE df[j]]
    /\ pc' = "clean_replace"
    /\ UNCHANGED CleanFrame

\* line 172
ReplaceBlanks ==
    /\ pc = "clean_replace"
    /\ df' = [j \in 1..Len(df) |->
                IF df[j].Value \in Blanks THEN [df[j] EXCEPT !.Value = MissingEntry]
                ELSE df[j]]
    /\ pc' = "clean_to_numeric"
    /\ UNCHANGED CleanFrame

\* line 173
ToNumeric ==
    /\ pc = "clean_to_numeric"
    /\ df' = [j \in 1..Len(df) |-> [df[j] EXCEPT !.Value = ToNumericEntry(@)]]
    /\ pc' = "clean_fillna"
    /\ UNCHANGED CleanFrame

\* Rows without a number dropped instead of filled.
FillNa_dropna ==
    /\ pc = "clean_fillna"
    /\ df' = SelectSeq(df, LAMBDA row : row.Value # NaN)
    /\ pc' = "clean_year"
    /\ UNCHANGED CleanFrame

\* line 174
FillNa ==
    /\ pc = "clean_fillna"
    /\ df' = [j \in 1..Len(df) |->
                IF df[j].Value = NaN THEN [df[j] EXCEPT !.Value = 0] ELSE df[j]]
    /\ pc' = "clean_year"
    /\ UNCHANGED CleanFrame

\* line 177
YearToInt ==
    /\ pc = "clean_year"
    /\ df' = [j \in 1..Len(df) |-> [df[j] EXCEPT !.Year = DigitsValue(@)]]
    /\ pc' = "clean_strip"
    /\ UNCHANGED CleanFrame

\* Only the Region and School columns stripped.
StripColumns_not_code ==
    /\ pc = "clean_strip"
    /\ df' = [j \in 1..Len(df) |->
                [df[j] EXCEPT !.Region = StripText(@), !.School = StripText(@)]]
    /\ pc' = "clean_order"
    /\ UNCHANGED CleanFrame

\* line 180-181
StripColumns ==
    /\ pc = "clean_strip"
    /\ df' = [j \in 1..Len(df) |->
                [df[j] EXCEPT !.RegionCode = StripText(@), !.Region = StripText(@),
                              !.School = StripText(@)]]
    /\ pc' = "clean_order"
    /\ UNCHANGED CleanFrame

\* line 184-188: the columns put in the target order and the frame returned
CleanReturn ==
    /\ pc = "clean_order"
    /\ pc' = "clean_return"
    /\ UNCHANGED df
    /\ UNCHANGED CleanFrame

NextClean ==
    \/ CaragaFix
    \/ ReplaceBlanks
    \/ ToNumeric
    \/ FillNa
    \/ YearToInt
    \/ StripColumns
    \/ CleanReturn

SpecClean == InitClean /\ [][NextClean]_vars

-----------------------------------------------------------------------------
(* assign_period of src/src/viz_utils.py, line 287-318 *)

YearMargin == 10  \* years tried before 2015 and after 2035

\* A table whose second period ends a year early.
PERIOD_RANGES_gap ==
    << [name |-> "Pre-Pandemic (2015-2019)", start |-> 2015, end |-> 2019],
       [name |-> "During Pandemic (2020-2022)", start |-> 2020, end |-> 2021],
       [name |-> "Post-Pandemic (2023-2025)", start |-> 2023, end |-> 2025],
       [name |-> "Forecast Phase 1 (2026-2030)", start |-> 2026, end |-> 2030],
       [name |-> "Forecast Phase 2 (2031-2035)", start |-> 2031, end |-> 2035] >>

\* line 288-294, in the order of the dict
PERIOD_RANGES ==
    << [name |-> "Pre-Pandemic (2015-2019)", start |-> 2015, end |-> 2019],
       [name |-> "During Pandemic (2020-2022)", start |-> 2020, end |-> 2022],
       [name |-> "Post-Pandemic (2023-2025)", start |-> 2023, end |-> 2025],
       [name |-> "Forecast Phase 1 (2026-2030)", start |-> 2026, end |-> 2030],
       [name |-> "Forecast Phase 2 (2031-2035)", start |-> 2031, end |-> 2035] >>

InitPeriod ==
    /\ year_arg \in (TRAINING_START - YearMargin)..(FORECAST_END + YearMargin)
    /\ range_at = 1
    /\ period = ""
    /\ pc = "period_for"
    /\ melted = <<>>
    /\ clean_metrics = NoFile
    /\ forecasts_parquet = NoFile
    /\ df = <<>>
    /\ df_train = <<>>
    /\ groups = <<>>
    /\ i = 0
    /\ series = <<>>
    /\ fit = NoFit
    /\ forecast_values = <<>>
    /\ all_forecasts = <<>>
    /\ result = <<>>

PeriodFrame == <<year_arg, melted, clean_metrics, forecasts_parquet, df, df_train, groups,
                 i, series, fit, forecast_values, all_forecasts, result>>

\* line 315-316: the year_arg is not in the range at hand
PeriodNext ==
    /\ pc = "period_for"
    /\ range_at <= Len(PERIOD_RANGES)
    /\ ~(PERIOD_RANGES[range_at].start <= year_arg /\ year_arg <= PERIOD_RANGES[range_at].end)
    /\ range_at' = range_at + 1
    /\ UNCHANGED <<pc, period>>
    /\ UNCHANGED PeriodFrame

\* line 316-317
PeriodReturn ==
    /\ pc = "period_for"
    /\ range_at <= Len(PERIOD_RANGES)
    /\ PERIOD_RANGES[range_at].start <= year_arg /\ year_arg <= PERIOD_RANGES[range_at].end
    /\ period' = PERIOD_RANGES[range_at].name
    /\ pc' = "period_return"
    /\ UNCHANGED range_at
    /\ UNCHANGED PeriodFrame

\* line 318
PeriodUnknown ==
    /\ pc = "period_for"
    /\ range_at > Len(PERIOD_RANGES)
    /\ period' = "Unknown"
    /\ pc' = "period_return"
    /\ UNCHANGED range_at
    /\ UNCHANGED PeriodFrame

NextPeriod ==
    \/ PeriodNext
    \/ PeriodReturn
    \/ PeriodUnknown

SpecPeriod == InitPeriod /\ [][NextPeriod]_vars

\* C26: when clean_values returns, the frame has the rows it was given, one
\* for one, and every Value is a number: 0 for a hyphen, a hyphen between
\* blanks, an empty text, a missing cell and any text that is not a number,
\* the number itself for a number and for a text that spells one.
C26_ValuesAreNumbers ==
    pc = "clean_return" =>
        /\ Len(df) = Len(melted)
        /\ \A j \in DOMAIN df :
            LET e == melted[j].Value
                v == df[j].Value
                spelled == e.kind = "text" /\ IsDigits(e.text)
                negative == /\ e.kind = "text" /\ Len(e.text) > 1
                            /\ e.text[1] = "-" /\ IsDigits(Tail(e.text))
            IN  /\ v # NaN
                /\ df[j].Metric = melted[j].Metric
                /\ df[j].School = StripText(melted[j].School)
                /\ e.kind = "number" => v = e.num
                /\ e.kind = "missing" => v = 0
                /\ spelled => v = Whole(DigitsValue(e.text))
                /\ (e.kind = "text" /\ ~spelled /\ ~negative) => v = 0

C26_Witness ==
    /\ pc = "clean_return"
    /\ Len(melted) = 2
    /\ melted[1].Value = TextEntry(<<" ", "-", " ">>) /\ df[1].Value = 0
    /\ melted[2].Value = TextEntry(<<"1", "2">>) /\ df[2].Value = Whole(12)

C28_PeriodOfYear ==
    /\ Len(PERIOD_RANGES) = 5
    /\ \A y \in TRAINING_START..FORECAST_END :
        Cardinality({n \in DOMAIN PERIOD_RANGES :
            PERIOD_RANGES[n].start <= y /\ y <= PERIOD_RANGES[n].end}) = 1
    /\ PERIOD_RANGES[3].end = TRAINING_END
    /\ PERIOD_RANGES[4].start = FORECAST_START
    /\ pc = "period_return" =>
        IF year_arg >= 2015 /\ year_arg <= 2035
        THEN \E n \in DOMAIN PERIOD_RANGES :
                /\ PERIOD_RANGES[n].start <= year_arg /\ year_arg <= PERIOD_RANGES[n].end
                /\ period = PERIOD_RANGES[n].name
                /\ (n <= 3) = (year_arg <= 2025)
        ELSE period = "Unknown"

C28_Witness ==
    /\ pc = "period_return"
    /\ year_arg = 2026
    /\ period = "Forecast Phase 1 (2026-2030)"

\* C29: when the table loaded has no row with a year in 2015..2025, no group
\* is formed and no series forecast, the run goes on up to the concatenation
\* and ends there in an exception: no table is returned and no output file
\* written.
C29_NoTrainingRowFails ==
    (/\ clean_metrics.exists
     /\ \A j \in DOMAIN clean_metrics.rows :
            clean_metrics.rows[j].Year < 2015 \/ clean_metrics.rows[j].Year > 2025) =>
        /\ pc \in {"load", "filter", "for", "concat", "raised"}
        /\ pc # "raised" => ENABLED Next
        /\ pc = "raised" => df = clean_metrics.rows
        /\ df_train = <<>> /\ groups = <<>> /\ i = 0
        /\ forecast_values = <<>> /\ all_forecasts = <<>>
        /\ result = <<>>
        /\ ~forecasts_parquet.exists

\* A table of rows that are all of 2014, raised at the concatenation.
C29_Witness ==
    /\ pc = "raised"
    /\ clean_metrics.exists
    /\ Len(df) >= 2
    /\ \A j \in DOMAIN df : df[j].Year < 2015

=============================================================================
